---- MODULE Spec2Model ----
(***************************************************************************)
(* Model of src/shm_visualizer.py: a Streamlit script that is re-executed  *)
(* top to bottom on every interaction.  The only state that survives a     *)
(* re-execution is the widget state kept by the runtime and                *)
(* st.session_state.frozen, the list of frozen snapshots.                  *)
(*                                                                         *)
(* Reals are scaled to integers: A and omega in tenths, t in hundredths.   *)
(* phi is a multiple of pi/2 (0..3), so theta = omega*t + phi is kept      *)
(* exactly as the pair [rat |-> omega*t (thousandths), quarter |-> phi].   *)
(* A drawn vector or wave is kept by the arguments it is drawn from        *)
(* (sin/cos and the plotting library are not modelled).                    *)
(***************************************************************************)
EXTENDS Integers, Sequences, FiniteSets, TLC

VARIABLES
    widgets,        \* widget state held by the UI runtime between executions
    session_state,  \* st.session_state: a mapping from keys to values
    locals,         \* module-level names of the running script execution
    fig,            \* the matplotlib figure of the running execution
    page,           \* elements emitted to the page by the running execution
    pc,             \* position of the script execution
    cycle,          \* history: the interaction that started the current cycle
    journal,        \* history: widget values at each freeze click since the
                    \*          last reset click (or session start)
    discarded       \* history: in a reset cycle, the length of the store when
                    \*          reset was clicked (0 in every other cycle)

vars == <<widgets, session_state, locals, fig, page, pc, cycle, journal, discarded>>

----------------------------------------------------------------------------
(* Bounds of the model. *)

\* most freeze clicks between two resets (specification Spec)
MaxFrozen == 2
\* most freeze clicks between two resets (specification SpecLong)
MaxFrozenLong == 11

\* Values a user can give the widgets under Spec (two per widget, inside the
\* ranges of lines 56-63: the default and another one).
Ranges ==
    [A |-> {20, 50}, omega |-> {10, 50}, phi_label |-> {"0", "pi"}, t |-> {1, 1000}]

\* Values a user can give the widgets under SpecLong: only the amplitude varies.
RangesLong ==
    [A |-> {20, 50}, omega |-> {10}, phi_label |-> {"0"}, t |-> {1}]

----------------------------------------------------------------------------
(* Pure parts of the script. *)

\* line 59: phi_map, in multiples of pi/2
phi_map == [l \in {"0", "pi/2", "pi", "3pi/2"} |->
              CASE l = "0" -> 0 [] l = "pi/2" -> 1 [] l = "pi" -> 2 [] l = "3pi/2" -> 3]

\* the values of the widgets on the first execution of a session
DefaultWidgets ==
    [A |-> 20, omega |-> 10, phi_label |-> "0", t |-> 1,
     freeze |-> FALSE, reset |-> FALSE]

NoLocals == [k \in {} |-> 0]
NoFig == [k \in {} |-> 0]

\* the frozen list, empty while the key is not yet in st.session_state
Store == IF "frozen" \in DOMAIN session_state THEN session_state["frozen"] ELSE <<>>

\* a mutant of Theta: the initial phase is left out
ThetaNoPhase(om, tt, ph) == [rat |-> om * tt, quarter |-> 0]

\* line 79: theta = omega * t + phi
Theta(om, tt, ph) == [rat |-> om * tt, quarter |-> ph]

\* line 82: plt.cm.tab10.colors
color_cycle ==
    << "#1f77b4", "#ff7f0e", "#2ca02c", "#d62728", "#9467bd",
       "#8c564b", "#e377c2", "#7f7f7f", "#bcbd22", "#17becf" >>

\* a mutant of SnapshotColor: the index is clamped instead of wrapped
SnapshotColorClamped(idx) ==
    color_cycle[(IF idx < Len(color_cycle) THEN idx ELSE Len(color_cycle) - 1) + 1]

\* line 86: color = color_cycle[idx % len(color_cycle)]
SnapshotColor(idx) == color_cycle[(idx % Len(color_cycle)) + 1]

\* a mutant of FreezeAppend: the list is capped at the size of the palette
FreezeAppendCapped(store, snap) ==
    IF Len(store) < Len(color_cycle) THEN Append(store, snap) ELSE store

\* a mutant of FreezeAppend: the snapshot is inserted at the front
FreezeInsertFront(store, snap) == <<snap>> \o store

\* line 87: st.session_state.frozen.append(...)
FreezeAppend(store, snap) == Append(store, snap)

\* lines 85-87: the tuple (omega, phi, A, theta, color) of a freeze
Snapshot(store, l) ==
    [omega |-> l.omega, phi |-> l.phi, A |-> l.A, theta |-> l.theta,
     color |-> SnapshotColor(Len(store))]

\* a mutant of ResetStore: only the newest snapshot is dropped
ResetStoreDropLast(ss) ==
    [ss EXCEPT !["frozen"] = IF @ = <<>> THEN <<>> ELSE SubSeq(@, 1, Len(@) - 1)]

\* line 75: st.session_state.frozen = []
ResetStore(ss) == [ss EXCEPT !["frozen"] = <<>>]

\* a mutant of FrozenPhasor: the arrow shrinks with its position in the list
FrozenPhasorDecayed(store, i) ==
    [r |-> (store[i].A * (IF 100 - 8 * (i - 1) > 45 THEN 100 - 8 * (i - 1) ELSE 45)) \div 100,
     angle |-> store[i].theta, color |-> store[i].color]

\* line 103: ax_c.arrow(0, 0, Af*cos(thf), Af*sin(thf), color=col)
FrozenPhasor(store, i) ==
    [r |-> store[i].A, angle |-> store[i].theta, color |-> store[i].color]

\* a mutant of FrozenWave: the wave is drawn from the live omega and phi
FrozenWaveLive(snap) ==
    [A |-> snap.A, omega |-> locals.omega, phi |-> locals.phi,
     color |-> snap.color, linestyle |-> "--"]

\* lines 137-138: y_frozen = Af * sin(wf * t_vals + phif), dashed, color=col
FrozenWave(snap) ==
    [A |-> snap.A, omega |-> snap.omega, phi |-> snap.phi,
     color |-> snap.color, linestyle |-> "--"]

\* lines 132-133: y_live_wave = A * sin(omega * t_vals + phi), solid white
LiveWave(l) ==
    [A |-> l.A, omega |-> l.omega, phi |-> l.phi, color |-> "white", linestyle |-> "-"]

\* a mutant of LiveWaveShown: the live wave is always drawn
LiveWaveAlways(store) == TRUE

\* line 131: if not st.session_state.frozen
LiveWaveShown(store) == store = <<>>

\* lines 91-148: the figure of one execution
DrawFigure(store, l) ==
    [frozen_phasors |-> [i \in 1..Len(store) |-> FrozenPhasor(store, i)],
     live_phasor    |-> [r |-> l.A, angle |-> l.theta],
     live_wave      |-> IF LiveWaveShown(store) THEN <<LiveWave(l)>> ELSE <<>>,
     frozen_waves   |-> IF LiveWaveShown(store) THEN <<>>
                        ELSE [i \in 1..Len(store) |-> FrozenWave(store[i])],
     point          |-> [t |-> l.t, r |-> l.A, angle |-> l.theta]]

----------------------------------------------------------------------------
(* The runtime and the script. *)

Init ==
    /\ widgets = DefaultWidgets
    /\ session_state = [k \in {} |-> <<>>]
    /\ locals = NoLocals
    /\ fig = NoFig
    /\ page = <<>>
    /\ pc = "controls"
    /\ cycle = "start"
    /\ journal = <<>>
    /\ discarded = 0

\* A new execution of the script starts from the top with a fresh namespace.
StartExecution ==
    /\ pc' = "controls"
    /\ locals' = NoLocals
    /\ fig' = NoFig
    /\ page' = <<>>

\* One interaction of the user with the page while no execution is running:
\* a widget gets a value, or one of the two buttons is clicked.  The runtime
\* answers with an execution of the script.
UserInteraction(ranges, max) ==
    /\ pc = "idle"
    /\ \/ \E w \in DOMAIN ranges : \E v \in ranges[w] :
            /\ widgets' = [widgets EXCEPT ![w] = v]
            /\ cycle' = "slider"
            /\ discarded' = 0
            /\ UNCHANGED journal
       \/ /\ Len(Store) < max
          /\ widgets' = [widgets EXCEPT !.freeze = TRUE]
          /\ cycle' = "freeze"
          /\ journal' = Append(journal, [A |-> widgets.A, omega |-> widgets.omega,
                                         phi_label |-> widgets.phi_label, t |-> widgets.t])
          /\ discarded' = 0
       \/ /\ widgets' = [widgets EXCEPT !.reset = TRUE]
          /\ cycle' = "reset"
          /\ journal' = <<>>
          /\ discarded' = Len(Store)
    /\ StartExecution
    /\ UNCHANGED session_state

\* lines 56-68: the widgets are declared and their values read
SidebarControls ==
    /\ pc = "controls"
    /\ locals' = [A |-> widgets.A, omega |-> widgets.omega,
                  phi_label |-> widgets.phi_label, phi |-> phi_map[widgets.phi_label],
                  t |-> widgets.t, freeze |-> widgets.freeze, reset |-> widgets.reset]
    /\ pc' = "session"
    /\ UNCHANGED <<widgets, session_state, fig, page, cycle, journal, discarded>>

\* line 76: st.rerun() stops this execution at once and starts another one;
\* the button triggers are cleared as an execution ends
Rerun ==
    /\ widgets' = [widgets EXCEPT !.freeze = FALSE, !.reset = FALSE]
    /\ StartExecution

\* lines 71-76: the store is created on first use; reset empties it and reruns
SessionState ==
    /\ pc = "session"
    /\ LET ss == IF "frozen" \notin DOMAIN session_state
                 THEN [k \in {"frozen"} |-> <<>>]
                 ELSE session_state
       IN  IF locals.reset
           THEN /\ session_state' = ResetStore(ss)
                /\ Rerun
           ELSE /\ session_state' = ss
                /\ pc' = "physics"
                /\ UNCHANGED <<widgets, locals, fig, page>>
    /\ UNCHANGED <<cycle, journal, discarded>>

\* a mutant of PhysicsAndFreeze: the freeze branch ends with st.rerun()
PhysicsAndFreezeRerun ==
    /\ pc = "physics"
    /\ LET l == [k \in DOMAIN locals \cup {"theta"} |->
                   IF k = "theta" THEN Theta(locals.omega, locals.t, locals.phi)
                   ELSE locals[k]]
       IN  IF locals.freeze
           THEN /\ session_state' = [session_state EXCEPT
                      !["frozen"] = FreezeAppend(@, Snapshot(@, l))]
                /\ Rerun
           ELSE /\ locals' = l
                /\ pc' = "render"
                /\ UNCHANGED <<widgets, session_state, fig, page>>
    /\ UNCHANGED <<cycle, journal, discarded>>

\* lines 79-87: theta is computed; a freeze appends the snapshot
PhysicsAndFreeze ==
    /\ pc = "physics"
    /\ LET l == [k \in DOMAIN locals \cup {"theta"} |->
                   IF k = "theta" THEN Theta(locals.omega, locals.t, locals.phi)
                   ELSE locals[k]]
       IN  /\ locals' = l
           /\ IF locals.freeze
              THEN session_state' = [session_state EXCEPT
                      !["frozen"] = FreezeAppend(@, Snapshot(@, l))]
              ELSE session_state' = session_state
    /\ pc' = "render"
    /\ UNCHANGED <<widgets, fig, page, cycle, journal, discarded>>

\* a mutant of Visualization: the drawing loop consumes the list
VisualizationConsuming ==
    /\ pc = "render"
    /\ fig' = DrawFigure(Store, locals)
    /\ page' = Append(page, [kind |-> "pyplot", n |-> Len(Store)])
    /\ session_state' = [session_state EXCEPT !["frozen"] = <<>>]
    /\ pc' = "details"
    /\ UNCHANGED <<widgets, locals, cycle, journal, discarded>>

\* lines 90-148: the figure is drawn and shown
Visualization ==
    /\ pc = "render"
    /\ fig' = DrawFigure(Store, locals)
    /\ page' = Append(page, [kind |-> "pyplot", n |-> Len(Store)])
    /\ pc' = "details"
    /\ UNCHANGED <<widgets, session_state, locals, cycle, journal, discarded>>

\* lines 153-159: formula, info line and the count of frozen states; the
\* execution ends and the runtime clears the button triggers
TechnicalDetails ==
    /\ pc = "details"
    /\ page' = page \o << [kind |-> "latex", n |-> 0], [kind |-> "info", n |-> 0] >>
                    \o (IF Store # <<>>
                        THEN << [kind |-> "success", n |-> Len(Store)] >>
                        ELSE <<>>)
    /\ widgets' = [widgets EXCEPT !.freeze = FALSE, !.reset = FALSE]
    /\ pc' = "idle"
    /\ UNCHANGED <<session_state, locals, fig, cycle, journal, discarded>>

Script ==
    \/ SidebarControls
    \/ SessionState
    \/ PhysicsAndFreeze
    \/ Visualization
    \/ TechnicalDetails

Next == UserInteraction(Ranges, MaxFrozen) \/ Script

NextLong == UserInteraction(RangesLong, MaxFrozenLong) \/ Script

Spec == Init /\ [][Next]_vars

SpecLong == Init /\ [][NextLong]_vars

----------------------------------------------------------------------------
(* Notions shared by the properties below. *)

\* the store is up to date with the clicks of the cycle: the freeze step of
\* the execution that renders has been passed
Settled == pc \in {"render", "details", "idle"}

\* the figure of the running (or just finished) execution has been drawn
Drawn == DOMAIN fig # {}

\* st.pyplot(fig) has been reached by the running (or just finished) execution
Rendered == \E i \in 1..Len(page) : page[i].kind = "pyplot"

\* snapshot s holds the widget values j recorded when freeze was clicked
HoldsValuesOf(s, j) ==
    /\ s.A = j.A
    /\ s.omega = j.omega
    /\ s.phi = phi_map[j.phi_label]

\* max(1 - 0.08*k, 0.45) in percent
DecayPercent(k) == IF 100 - 8 * k > 45 THEN 100 - 8 * k ELSE 45

----------------------------------------------------------------------------
(* C1: after n freeze cycles since the store was last empty by a reset or  *)
(* by session start, the store holds exactly n snapshots, and the freeze   *)
(* step of a freeze cycle makes the store longer by exactly one, whatever  *)
(* its length and the control values.                                      *)
C1_FreezeGrowsByOne ==
    /\ [](Settled => Len(Store) = Len(journal))
    /\ [][(pc = "physics" /\ locals.freeze) => Len(Store') = Len(Store) + 1]_vars

C1_Witness ==
    /\ pc = "idle"
    /\ cycle = "freeze"
    /\ Len(journal) = MaxFrozenLong
    /\ Len(Store) = MaxFrozenLong

(* C2: once the reset of a reset cycle has been executed the store is      *)
(* empty; the reset step empties the store in one step, whatever it held,  *)
(* and the store never gets shorter without becoming empty.                *)
C2_ResetClears ==
    /\ []((cycle = "reset" /\ ~widgets.reset) => Store = <<>>)
    /\ [][(pc = "session" /\ locals.reset) => Store' = <<>>]_vars
    /\ [][Len(Store') < Len(Store) => Store' = <<>>]_vars

C2_Witness ==
    /\ cycle = "reset"
    /\ ~widgets.reset
    /\ discarded = MaxFrozen
    /\ Store = <<>>

(* C3: in every state the snapshot at position k (from 0) has the colour   *)
(* palette[k mod 10] of the 10-colour palette.                             *)
C3_ColourByPosition ==
    /\ Len(color_cycle) = 10
    /\ \A k \in 0..(Len(Store) - 1) : Store[k + 1].color = color_cycle[(k % 10) + 1]

C3_Witness ==
    /\ Len(Store) = 11
    /\ Store[11].color = Store[1].color
    /\ Store[11].A # Store[1].A
    /\ Store[2].A = Store[1].A
    /\ Store[2].color # Store[1].color

(* C4, as claimed: the phasor of the snapshot of the k-th freeze is drawn  *)
(* at the scale max(1 - 0.08*k, 0.45) of its stored amplitude.             *)
C4_DecayScale ==
    Drawn => \A k \in 0..(Len(Store) - 1) :
                fig.frozen_phasors[k + 1].r * 100 = Store[k + 1].A * DecayPercent(k)

(* C4, amended: a snapshot holds omega, phi, A, theta and colour and no    *)
(* scale, and its phasor is drawn at its full stored amplitude for every k.*)
C4_FullSizePhasors ==
    Drawn => /\ Len(fig.frozen_phasors) = Len(Store)
             /\ \A k \in 0..(Len(Store) - 1) :
                   /\ DOMAIN Store[k + 1] = {"omega", "phi", "A", "theta", "color"}
                   /\ fig.frozen_phasors[k + 1].r = Store[k + 1].A

C4_Witness ==
    /\ Drawn
    /\ Len(Store) = 2
    /\ fig.frozen_phasors[2].r = Store[2].A
    /\ fig.frozen_phasors[2].r * 100 # Store[2].A * DecayPercent(1)

(* C5: no step of a cycle started by anything but a button changes the     *)
(* store, nor does the render step of any cycle; the store becomes         *)
(* non-empty only in a freeze cycle and empty only in a reset cycle; and   *)
(* the two loops over the store of one render see the same snapshots in    *)
(* the same order.                                                         *)
C5_StoreFrame ==
    /\ [][cycle' \notin {"freeze", "reset"} => Store' = Store]_vars
    /\ [][pc = "render" => Store' = Store]_vars
    /\ [][(Store = <<>> /\ Store' # <<>>) => cycle' = "freeze"]_vars
    /\ [][(Store # <<>> /\ Store' = <<>>) => cycle' = "reset"]_vars
    /\ [](Drawn /\ Store # <<>> =>
            /\ Len(fig.frozen_phasors) = Len(Store)
            /\ Len(fig.frozen_waves) = Len(Store)
            /\ \A k \in 1..Len(Store) :
                  /\ fig.frozen_phasors[k].color = Store[k].color
                  /\ fig.frozen_waves[k].color = Store[k].color)

C5_Witness ==
    /\ pc = "idle"
    /\ cycle = "slider"
    /\ Len(Store) = 2
    /\ Len(fig.frozen_waves) = 2
    /\ Len(journal) = 2

(* C6: a render draws the solid live wave iff the store is empty and one   *)
(* dashed trace per snapshot iff it is not; the render of a freeze cycle   *)
(* has no live wave and shows the new snapshot, the render of a reset      *)
(* cycle has the live wave and no trace.                                   *)
C6_WaveToggle ==
    Drawn =>
        /\ Len(fig.live_wave) = (IF Store = <<>> THEN 1 ELSE 0)
        /\ Len(fig.frozen_waves) = Len(Store)
        /\ \A k \in 1..Len(fig.live_wave) : fig.live_wave[k].linestyle = "-"
        /\ \A k \in 1..Len(fig.frozen_waves) : fig.frozen_waves[k].linestyle = "--"
        /\ cycle = "freeze" =>
              /\ fig.live_wave = <<>>
              /\ fig.frozen_waves # <<>>
              /\ HoldsValuesOf(fig.frozen_waves[Len(fig.frozen_waves)], journal[Len(journal)])
        /\ cycle = "reset" =>
              /\ Len(fig.live_wave) = 1
              /\ fig.frozen_waves = <<>>

C6_Witness ==
    /\ Drawn
    /\ cycle = "freeze"
    /\ Len(Store) = 1
    /\ fig.live_wave = <<>>
    /\ Len(fig.frozen_waves) = 1

(* C7, as claimed: an execution of the script starts only after the one    *)
(* before it has reached the render step and ended.                        *)
C7_EveryRunRenders ==
    [][pc' = "controls" => (pc = "idle" /\ Rendered)]_vars

(* C7, amended: an execution starts only after the one before it has       *)
(* rendered and ended, except that the execution started by a reset click  *)
(* stops at st.rerun(), right after emptying the store and before the      *)
(* render step, and is followed at once by an execution with no button     *)
(* set; a button is set only by a click between executions, and an         *)
(* execution that ends has rendered.                                       *)
C7_OnlyResetCutsShort ==
    /\ [][pc' = "controls" =>
            \/ pc = "idle" /\ Rendered
            \/ /\ pc = "session"
               /\ widgets.reset
               /\ ~Rendered
               /\ Store' = <<>>
               /\ ~widgets'.reset
               /\ ~widgets'.freeze
               /\ cycle' = cycle]_vars
    /\ [][((widgets'.reset /\ ~widgets.reset) \/ (widgets'.freeze /\ ~widgets.freeze))
            => pc = "idle"]_vars
    /\ [](pc = "idle" => Rendered)

C7_Witness ==
    /\ cycle = "reset"
    /\ pc = "idle"
    /\ Rendered
    /\ discarded > 0

(* C8: the store is the sequence of the snapshots of the freezes since the *)
(* last reset (or session start), in the order of the freezes; a step that *)
(* makes the store longer adds one entry at the end and keeps the others.  *)
C8_InsertionOrder ==
    /\ [](Settled =>
            /\ Len(Store) = Len(journal)
            /\ \A k \in 1..Len(Store) : HoldsValuesOf(Store[k], journal[k]))
    /\ [][Len(Store') > Len(Store) =>
            /\ Len(Store') = Len(Store) + 1
            /\ SubSeq(Store', 1, Len(Store)) = Store]_vars

C8_Witness ==
    /\ pc = "idle"
    /\ Len(Store) = 2
    /\ journal[1] = journal[2]
    /\ Store[1].theta = Store[2].theta
    /\ Store[1].A = Store[2].A

(* C9: the arrow and the dashed wave drawn for a snapshot are those of the *)
(* values stored in it, which are those of the freeze click, whatever the  *)
(* live control values of the render are.                                  *)
C9_DrawnFromStored ==
    Drawn => \A k \in 1..Len(Store) :
        /\ fig.frozen_phasors[k] =
              [r |-> Store[k].A, angle |-> Store[k].theta, color |-> Store[k].color]
        /\ fig.frozen_waves[k].A = Store[k].A
        /\ fig.frozen_waves[k].omega = Store[k].omega
        /\ fig.frozen_waves[k].phi = Store[k].phi
        /\ fig.frozen_waves[k].color = Store[k].color
        /\ HoldsValuesOf(fig.frozen_waves[k], journal[k])
        /\ fig.frozen_phasors[k].r = journal[k].A
        /\ fig.frozen_phasors[k].angle.rat = journal[k].omega * journal[k].t

C9_Witness ==
    /\ Drawn
    /\ cycle = "slider"
    /\ Len(Store) = 1
    /\ locals.A # Store[1].A
    /\ locals.omega # Store[1].omega
    /\ locals.phi # Store[1].phi
    /\ locals.t * locals.omega # Store[1].theta.rat
    /\ fig.frozen_waves[1].omega = Store[1].omega

(* C10: the snapshot appended in a freeze cycle holds the omega, phi and A *)
(* of the widgets in that cycle and theta = omega*t + phi of the omega, t  *)
(* and phi of that cycle.                                                  *)
C10_SnapshotOfThisCycle ==
    (cycle = "freeze" /\ Settled) =>
        /\ Store # <<>>
        /\ LET s == Store[Len(Store)]
           IN  /\ s.omega = widgets.omega
               /\ s.phi = phi_map[widgets.phi_label]
               /\ s.A = widgets.A
               /\ s.theta = [rat |-> widgets.omega * widgets.t,
                             quarter |-> phi_map[widgets.phi_label]]

C10_Witness ==
    /\ cycle = "freeze"
    /\ pc = "idle"
    /\ Len(Store) = 2
    /\ Store[2].theta.quarter = 2
    /\ Store[1].theta.rat # Store[2].theta.rat
    /\ Store[1].omega # Store[2].omega
    /\ Store[1].A # Store[2].A

====
